---- MODULE Spec2Model ----
(***************************************************************************)
(* A model of retext (src/index.js): the CST -> TextOM tree builder        *)
(* fromCST, and the Retext instance with its operations use, parse and     *)
(* run over the ware middleware pipeline.                                  *)
(*                                                                         *)
(* JavaScript runs every call to completion, so each action below is one   *)
(* task of the event loop: one call of use, parse or run made by the       *)
(* caller, or one later task in which a suspended asynchronous plugin      *)
(* invokes the continuation it was given.                                  *)
(***************************************************************************)
EXTENDS Integers, Sequences, FiniteSets, TLC

VARIABLES
    fns,        \* self.ware.fns: the attached plugins, in order
    arity,      \* plugin.length of every plugin function: 2 (node, retext) or 3 (.., next)
    attached,   \* per plugin, how many times plugin.attach was invoked
    runs,       \* the ware.run calls made so far, each with its pipeline state
    op,         \* the last task: which call, and what it did before returning or throwing
    cst,        \* the CST self.parser.parse returned in the last task, if any
    built,      \* the result of fromCST(self.TextOM, cst) in the last task, if any
    late        \* number of later tasks that invoked a continuation

vars == <<fns, arity, attached, runs, op, cst, built, late>>

-----------------------------------------------------------------------------
(* Bounds of the model.                                                    *)

\* CSTs of at most this many nodes are enumerated.
MaxNodes == 4
\* Pipelines (ware.run calls) that may be in flight or finished.
MaxRuns == 1
\* Later tasks in which a plugin invokes a continuation it was given.
MaxLate == 2
\* Nested use calls (attach hooks calling use) before the engine's call
\* stack overflows.
MaxStack == 4
\* Pipelines in flight at the same time, where runs overlap.
MaxPair == 2
\* Later tasks that invoke a continuation, where runs overlap.
MaxPairLate == 4

-----------------------------------------------------------------------------
(* Values.                                                                 *)

Plugins == {"P1", "P2", "P3"}
Callbacks == {"done"}
\* Values that are not functions: a missing argument, a string, an object.
NonFunctions == {"undefined", "str"}

\* typeof v
TypeOf(v) == IF v \in Plugins \cup Callbacks THEN "function"
             ELSE IF v = "undefined" THEN "undefined"
             ELSE "string"

NoError == "null"

-----------------------------------------------------------------------------
(* Concrete syntax trees, as the parser returns them.                      *)
(* has says which of the properties `children` and `value` the object      *)
(* carries; data is the sequence of the attributes of its `data` object    *)
(* in enumeration order (own says whether the attribute is an own          *)
(* property), or NoData when the object has no `data` property.            *)

NoData == <<"absent">>

CSTNode(t, h, kids, v, d) ==
    [type |-> t, has |-> h, children |-> kids, value |-> v, data |-> d]

\* A falsy entry of a children list (null, undefined, a hole).
NullCST == CSTNode("null", "neither", <<>>, "undefined", NoData)

Leaf(t, v) == CSTNode(t, "value", <<>>, v, NoData)
Parent(t, kids) == CSTNode(t, "children", kids, "undefined", NoData)

Truthy(c) == c # NullCST

\* The CST of 'Cat.' (README / spec section 8).
CatCST ==
    Parent("RootNode",
        << Parent("SentenceNode",
              << Leaf("WordNode", "Cat"), Leaf("PunctuationNode", ".") >>) >>)

-----------------------------------------------------------------------------
(* The object model TextOM: one constructor per node type.  A node records *)
(* what was done to it: the nodes appended to it, in order, the arguments  *)
(* of its fromString calls, in order, and its data namespace.              *)

TextOMTypes ==
    {"RootNode", "ParagraphNode", "SentenceNode", "WordNode",
     "PunctuationNode", "WhiteSpaceNode", "SymbolNode", "TextNode", "SourceNode"}

\* new TextOM[type]()
NewNode(t) == [type |-> t, children |-> <<>>, text |-> <<>>, data |-> {}]

\* node.append(child)
NodeAppend(node, child) == [node EXCEPT !.children = Append(@, child)]

\* node.fromString(value)
NodeFromString(node, v) == [node EXCEPT !.text = Append(@, v)]

NoNode == [type |-> "undefined", children |-> <<>>, text |-> <<>>, data |-> {}]

\* node.data[attribute] = value, for the attributes in order (a later
\* write to the same attribute replaces the earlier one).
RECURSIVE CopyData(_, _, _)
CopyData(nodeData, d, i) ==
    IF i > Len(d) THEN nodeData
    ELSE IF d[i].own
         THEN CopyData({e \in nodeData : e[1] # d[i].key} \cup {<<d[i].key, d[i].val>>},
                       d, i + 1)
         ELSE CopyData(nodeData, d, i + 1)

\* Results of fromCST: a node, or the exception that left the call.
Returned(n) == [err |-> NoError, node |-> n]
Threw(e) == [err |-> e, node |-> NoNode]

\* The mutant of the children loop: it visits the children last to first.
RECURSIVE fromCST(_)
RECURSIVE AppendChildren_rev(_, _, _)
AppendChildren_rev(node, children, index) ==
    LET j == Len(children) + 1 - index IN
    IF index > Len(children) \/ ~Truthy(children[j])
    THEN Returned(node)
    ELSE LET c == fromCST(children[j]) IN
         IF c.err # NoError THEN c
         ELSE AppendChildren_rev(NodeAppend(node, c.node), children, index + 1)

\* while (children[++index]) node.append(fromCST(TextOM, children[index]))
\* (index counts from 1 here; the loop ends at the end of the list or at
\* the first falsy entry; an exception in a child leaves the loop).
RECURSIVE AppendChildren(_, _, _)
AppendChildren(node, children, index) ==
    IF index > Len(children) \/ ~Truthy(children[index])
    THEN Returned(node)
    ELSE LET c == fromCST(children[index]) IN
         IF c.err # NoError THEN c
         ELSE AppendChildren(NodeAppend(node, c.node), children, index + 1)

\* function fromCST(TextOM, cst)
fromCST(c) ==
    IF c.type \notin TextOMTypes
    THEN Threw("TypeError")      \* new undefined(): not a constructor
    ELSE LET node == NewNode(c.type)
             filled ==
                 IF c.has \in {"children", "both"}          \* 'children' in cst
                 THEN AppendChildren(node, c.children, 1)
                 ELSE Returned(NodeFromString(node, c.value))
         IN IF filled.err # NoError THEN filled
            ELSE IF c.data # NoData                          \* 'data' in cst
                 THEN Returned([filled.node EXCEPT !.data = CopyData(@, c.data, 1)])
                 ELSE filled

-----------------------------------------------------------------------------
(* The CSTs the tree builder is checked on: every CST of at most MaxNodes  *)
(* nodes over GenTypes and Values, well-formed or not.                     *)

GenTypes == {"WordNode", "BogusNode"}
Values == {"Cat", "."}

SomeData == << [key |-> "k", val |-> "v1", own |-> TRUE],
               [key |-> "inherited", val |-> "v2", own |-> FALSE] >>

RECURSIVE CSTsOfSize(_)
RECURSIVE ForestsOfSize(_)

\* The CSTs of exactly n nodes.
CSTsOfSize(n) ==
    IF n = 1
    THEN {Leaf("WordNode", v) : v \in Values}
         \cup {Leaf("BogusNode", "Cat")}
         \cup {Parent(t, <<>>) : t \in GenTypes}
         \cup {CSTNode("WordNode", "neither", <<>>, "undefined", NoData)}
    ELSE {Parent(t, f) : t \in GenTypes, f \in ForestsOfSize(n - 1)}
         \cup {CSTNode("WordNode", "both", f, "Cat", NoData) : f \in ForestsOfSize(n - 1)}

\* The children lists of m nodes in total; an entry may be falsy.
ForestsOfSize(m) ==
    IF m = 0 THEN {<<>>}
    ELSE UNION { { <<c>> \o f : c \in CSTsOfSize(k) \cup (IF k = 1 THEN {NullCST} ELSE {}),
                               f \in ForestsOfSize(m - k) } : k \in 1..m }

CSTsUpTo(n) == UNION { CSTsOfSize(k) : k \in 1..n }

GenCSTs ==
    CSTsUpTo(MaxNodes)
    \cup {[c EXCEPT !.data = SomeData] : c \in CSTsUpTo(2)}
    \cup {CatCST}

-----------------------------------------------------------------------------
(* Plugins.                                                                *)
(* A plugin is a function; plugin.length (arity) says whether it takes the *)
(* continuation `next`.  What a plugin does when it is invoked is an input *)
(* of the task that invokes it.                                            *)

\* plugin.attach, for the plugins that have one: the plugins the hook
\* attaches through retext.use, in order.
AttachUses(p) ==
    CASE p = "P1" -> << "P2" >>
      [] p = "P2" -> << "P1", "P2" >>
      [] OTHER -> << >>

\* plugin.attach is truthy.
HasAttach(p) == p \in {"P1", "P2"}

\* Whether an attach hook throws: not at all, before it uses any plugin,
\* or after it has used them all.
HookModes == [ {"P1", "P2"} -> {"no", "first", "last"} ]

\* fn.length; a value that is no function has none.
ArityOf(fn) == IF fn \in Plugins THEN arity[fn] ELSE 0

\* The error a plugin raises is named after the plugin.
ErrorOf(p) == p

\* The node a plugin hands to its continuation as a replacement.
Replacement(p) == [type |-> "Replacement", children |-> <<>>, text |-> <<p>>, data |-> {}]

\* What a synchronous plugin does when invoked.
SyncBehaviours == {"return", "throw"}
\* What an asynchronous plugin does before it returns to the runner:
\* nothing (it suspends), or calls of next, or a throw, or both.
AsyncBehaviours ==
    {"suspend", "next", "nextError", "nextNode", "throw",
     "nextThenThrow", "nextTwice"}

BehavioursOf(p) == IF ArityOf(p) >= 3 THEN AsyncBehaviours ELSE SyncBehaviours

-----------------------------------------------------------------------------
(* The pipeline runner: ware.run(node, self, done).                        *)
(*                                                                         *)
(* A pipeline r records                                                    *)
(*   input    the node given to ware.run,                                  *)
(*   node     the node the next plugin will receive,                       *)
(*   hasDone  whether a completion callback was given,                     *)
(*   i        how many plugins have been started,                          *)
(*   consumed per started plugin, whether its completion was taken         *)
(*            (a continuation acts once; later calls of it do nothing),    *)
(*   cbArgs   the arguments of every invocation of the callback,           *)
(*   log      the events of the pipeline, in order: a plugin is started    *)
(*            ("start"), its completion is taken ("end", or "fail" when it *)
(*            carries an error), the callback is invoked ("callback", with *)
(*            the length of the registry at that moment as k),             *)
(*   ignored  the completions that came after the plugin's first and did   *)
(*            nothing: <<k, "end">> or <<k, "fail">>.                      *)

Event(e, k, p, n) == [e |-> e, k |-> k, p |-> p, node |-> n]

NewRun(node, hasDone) ==
    [input |-> node, node |-> node, hasDone |-> hasDone, i |-> 0,
     consumed |-> <<>>, cbArgs |-> <<>>, log |-> <<>>, ignored |-> {}]

\* done(err, node): the completion callback is invoked.
InvokeDone(r, err, node) ==
    IF r.hasDone
    THEN [r EXCEPT !.cbArgs = Append(@, [err |-> err, node |-> node]),
                   !.log = Append(@, Event("callback", Len(fns), "done", node))]
    ELSE r

RECURSIVE WareNext(_, _, _, _)
RECURSIVE Complete(_, _, _, _, _)

\* The plugin at position k is invoked with (node, retext) or, when its
\* arity says so, with (node, retext, next), and does what beh says.
InvokePlugin(r, k, beh) ==
    LET p == fns[k]
        \* an entry that is no function cannot be applied: a TypeError
        b == IF p \in Plugins THEN beh[k] ELSE "throw"
        r1 == [r EXCEPT !.i = k,
                        !.consumed = Append(@, FALSE),
                        !.log = Append(@, Event("start", k, p, r.node))]
    IN CASE b = "return" -> Complete(r1, k, NoError, NoNode, beh)
         [] b = "throw" -> Complete(r1, k, ErrorOf(p), NoNode, beh)
         [] b = "suspend" -> r1
         [] b = "next" -> Complete(r1, k, NoError, NoNode, beh)
         [] b = "nextError" -> Complete(r1, k, ErrorOf(p), NoNode, beh)
         [] b = "nextNode" -> Complete(r1, k, NoError, Replacement(p), beh)
         [] b = "nextThenThrow" ->
                Complete(Complete(r1, k, NoError, NoNode, beh), k, ErrorOf(p), NoNode, beh)
         [] b = "nextTwice" ->
                Complete(Complete(r1, k, NoError, NoNode, beh), k, NoError, NoNode, beh)
         [] OTHER -> r1

\* Plugin k completes: it returned or threw, or its continuation was invoked
\* with (err, node).  Only the first completion of a plugin acts.
Complete(r, k, err, node, beh) ==
    IF r.consumed[k]
    THEN [r EXCEPT !.ignored = @ \cup {<<k, IF err = NoError THEN "end" ELSE "fail">>}]
    ELSE WareNext([r EXCEPT !.consumed[k] = TRUE,
                            !.log = Append(@, Event(IF err = NoError THEN "end" ELSE "fail",
                                                    k, fns[k], node))],
                  err, node, beh)

\* The runner's step: report the error, or start the next plugin, or, past
\* the last plugin, report the node.
WareNext(r, err, node, beh) ==
    IF err # NoError THEN InvokeDone(r, err, NoNode)
    ELSE LET r1 == IF node # NoNode THEN [r EXCEPT !.node = node] ELSE r IN
         IF r1.i >= Len(fns)
         THEN InvokeDone(r1, NoError, r1.node)
         ELSE InvokePlugin(r1, r1.i + 1, beh)

\* ware.run(node, self, done): done is the callback when it is a function.
WareRun(node, done, beh) ==
    WareNext(NewRun(node, TypeOf(done) = "function"), NoError, NoNode, beh)

\* ware.use(fn)
WareUse(list, fn) == Append(list, fn)

-----------------------------------------------------------------------------
(* Retext.prototype.use                                                    *)
(*                                                                         *)
(* A use call may be nested in an attach hook, so it is computed on a      *)
(* record st of what the task has done so far: fns, attached, the hooks    *)
(* invoked in this task (in order), and err, the exception in flight.      *)

\* list.indexOf(v): the 0-based position of the first occurrence, or -1.
IndexOf(list, v) ==
    IF \E j \in 1..Len(list) : list[j] = v
    THEN (CHOOSE j \in 1..Len(list) : list[j] = v /\ \A h \in 1..(j - 1) : list[h] # v) - 1
    ELSE -1

\* Mutant: !plugin
IllegalPlugin_falsy(plugin) == plugin = "undefined"

\* typeof plugin !== 'function'
IllegalPlugin(plugin) == TypeOf(plugin) # "function"

\* Mutant: the registry is not searched.
NotAttached_always(list, plugin) == TRUE

\* self.ware.fns.indexOf(plugin) === -1
NotAttached(list, plugin) == IndexOf(list, plugin) = -1

\* if (plugin.attach), inside the branch of a newly attached plugin
InvokesAttach(plugin) == HasAttach(plugin)

RECURSIVE UseCall(_, _, _, _)
RECURSIVE HookUses(_, _, _, _, _)

\* plugin.attach(self): the hook throws first, or uses its plugins in order
\* and then throws or returns.  An exception of a nested use leaves the hook.
AttachHook(st, plugin, mode, depth) ==
    LET st1 == [st EXCEPT !.attached[plugin] = @ + 1,
                          !.hooks = Append(@, plugin)]
    IN IF mode[plugin] = "first" THEN [st1 EXCEPT !.err = "AttachError"]
       ELSE LET st2 == HookUses(st1, AttachUses(plugin), 1, mode, depth) IN
            IF st2.err = NoError /\ mode[plugin] = "last"
            THEN [st2 EXCEPT !.err = "AttachError"]
            ELSE st2

HookUses(st, uses, j, mode, depth) ==
    IF j > Len(uses) \/ st.err # NoError THEN st
    ELSE HookUses(UseCall(st, uses[j], mode, depth + 1), uses, j + 1, mode, depth)

\* Mutant: the attach hook is invoked outside the branch of a newly
\* attached plugin, on every use.
UseCall_attachAlways(st, plugin, mode, depth) ==
    IF depth > MaxStack THEN [st EXCEPT !.err = "RangeError"]
    ELSE IF IllegalPlugin(plugin) THEN [st EXCEPT !.err = "TypeError"]
    ELSE LET st1 == IF NotAttached(st.fns, plugin)
                    THEN [st EXCEPT !.fns = WareUse(@, plugin)]
                    ELSE st
         IN IF InvokesAttach(plugin)
            THEN AttachHook(st1, plugin, mode, depth)
            ELSE st1

\* Mutant: the attach hook is invoked before the plugin is appended.
UseCall_attachFirst(st, plugin, mode, depth) ==
    IF depth > MaxStack THEN [st EXCEPT !.err = "RangeError"]
    ELSE IF IllegalPlugin(plugin) THEN [st EXCEPT !.err = "TypeError"]
    ELSE IF NotAttached(st.fns, plugin)
         THEN LET st1 == IF InvokesAttach(plugin)
                         THEN AttachHook(st, plugin, mode, depth)
                         ELSE st
              IN IF st1.err # NoError THEN st1
                 ELSE [st1 EXCEPT !.fns = WareUse(@, plugin)]
         ELSE st

\* Mutant: a plugin that is attached already is moved to the end of the
\* registry.
UseCall_moveToEnd(st, plugin, mode, depth) ==
    IF depth > MaxStack THEN [st EXCEPT !.err = "RangeError"]
    ELSE IF IllegalPlugin(plugin) THEN [st EXCEPT !.err = "TypeError"]
    ELSE IF NotAttached(st.fns, plugin)
         THEN LET st1 == [st EXCEPT !.fns = WareUse(@, plugin)] IN
              IF InvokesAttach(plugin)
              THEN AttachHook(st1, plugin, mode, depth)
              ELSE st1
         ELSE [st EXCEPT !.fns = WareUse(SelectSeq(@, LAMBDA q : q # plugin), plugin)]

\* Mutant: the plugin is put at the front of the registry.
UseCall_prepend(st, plugin, mode, depth) ==
    IF depth > MaxStack THEN [st EXCEPT !.err = "RangeError"]
    ELSE IF IllegalPlugin(plugin) THEN [st EXCEPT !.err = "TypeError"]
    ELSE IF NotAttached(st.fns, plugin)
         THEN LET st1 == [st EXCEPT !.fns = << plugin >> \o @] IN
              IF InvokesAttach(plugin)
              THEN AttachHook(st1, plugin, mode, depth)
              ELSE st1
         ELSE st

\* Mutant: when the attach hook throws, the registry is restored.
UseCall_rollback(st, plugin, mode, depth) ==
    IF depth > MaxStack THEN [st EXCEPT !.err = "RangeError"]
    ELSE IF IllegalPlugin(plugin) THEN [st EXCEPT !.err = "TypeError"]
    ELSE IF NotAttached(st.fns, plugin)
         THEN LET st1 == [st EXCEPT !.fns = WareUse(@, plugin)]
                  st2 == IF InvokesAttach(plugin)
                         THEN AttachHook(st1, plugin, mode, depth)
                         ELSE st1
              IN IF st2.err # NoError THEN [st2 EXCEPT !.fns = st.fns] ELSE st2
         ELSE st

\* Retext.prototype.use = function (plugin)
UseCall(st, plugin, mode, depth) ==
    IF depth > MaxStack THEN [st EXCEPT !.err = "RangeError"]
    ELSE IF IllegalPlugin(plugin) THEN [st EXCEPT !.err = "TypeError"]
    ELSE IF NotAttached(st.fns, plugin)
         THEN LET st1 == [st EXCEPT !.fns = WareUse(@, plugin)] IN
              IF InvokesAttach(plugin)
              THEN AttachHook(st1, plugin, mode, depth)
              ELSE st1
         ELSE st

-----------------------------------------------------------------------------
(* Retext.prototype.run and Retext.prototype.parse                         *)
(*                                                                         *)
(* The result of a call: thrown, the exception that left it (or NoError);  *)
(* parsed, whether self.parser.parse was invoked; cst and built, what the  *)
(* parser and fromCST returned; run, the pipeline started, if any.         *)

CallResult(thrown, parsed, c, b, run) ==
    [thrown |-> thrown, parsed |-> parsed, cst |-> c, built |-> b, run |-> run]

NoCST == NullCST
NotBuilt == [err |-> "none", node |-> NoNode]

\* typeof done !== 'function'
IllegalCallback(done) == TypeOf(done) # "function"

\* Mutants of the delegation to ware.run.
\* self.ware.run(node, self, done); done(null, node)
Delegate_callsDoneToo(node, done, beh) ==
    InvokeDone(WareRun(node, done, beh), NoError, node)
\* done(null, node); self.ware.run(node, self, done)
Delegate_callsDoneFirst(node, done, beh) ==
    WareNext(InvokeDone(NewRun(node, TRUE), NoError, node), NoError, NoNode, beh)
\* self.ware.run(node, self); done(null, node)
Delegate_doneOnReturn(node, done, beh) ==
    [InvokeDone([WareRun(node, "undefined", beh) EXCEPT !.hasDone = TRUE], NoError, node)
        EXCEPT !.hasDone = FALSE]
\* self.ware.run(node, self)
Delegate_noDone(node, done, beh) == WareRun(node, "undefined", beh)

\* self.ware.run(node, self, function (err) { done(err, err ? undefined : node) })
Delegate_doneGetsInput(node, done, beh) ==
    LET r == WareRun(node, done, beh) IN
    IF r.cbArgs # << >> /\ r.cbArgs[1].err = NoError
    THEN [r EXCEPT !.cbArgs = << [err |-> NoError, node |-> node] >>]
    ELSE r
\* self.ware.run(node, self, done), and done(timeout) if the pipeline has
\* not completed when ware.run returns.
Delegate_impatient(node, done, beh) ==
    LET r == WareRun(node, done, beh) IN
    IF r.cbArgs = << >> THEN InvokeDone(r, "TimeoutError", NoNode) ELSE r

\* if a pipeline of this instance is in flight: done(busy); otherwise
\* self.ware.run(node, self, done)
Delegate_busy(node, done, beh) ==
    IF \E r \in 1..Len(runs) : runs[r].cbArgs = << >>
    THEN InvokeDone(NewRun(node, TRUE), "BusyError", NoNode)
    ELSE WareRun(node, done, beh)

\* self.ware.run(node, self, done)
Delegate(node, done, beh) == WareRun(node, done, beh)

\* Retext.prototype.run = function (node, done)
RetextRun(node, done, beh) ==
    IF IllegalCallback(done)
    THEN CallResult("TypeError", FALSE, NoCST, NotBuilt, << >>)
    ELSE CallResult(NoError, FALSE, NoCST, NotBuilt, << Delegate(node, done, beh) >>)

\* What self.parser.parse(value) does: it throws, or returns a CST.
ParserCSTs ==
    { CatCST,
      Parent("RootNode", << Parent("SentenceNode", << Leaf("BogusNode", "Cat") >>) >>) }
ParserOutcomes == {[threw |-> TRUE, cst |-> NoCST]}
                  \cup {[threw |-> FALSE, cst |-> c] : c \in ParserCSTs}

\* Mutants of parse.
\* Without the guard of parse: the callback is first looked at by run.
RetextParse_noGuard(value, done, outcome, beh) ==
    IF outcome.threw
    THEN CallResult("ParseError", TRUE, NoCST, NotBuilt, << >>)
    ELSE LET tree == fromCST(outcome.cst) IN
         IF tree.err # NoError
         THEN CallResult(tree.err, TRUE, outcome.cst, tree, << >>)
         ELSE LET res == RetextRun(tree.node, done, beh) IN
              CallResult(res.thrown, TRUE, outcome.cst, tree, res.run)
\* try { cst = self.parser.parse(value) } catch (e) { done(e); return self }
RetextParse_catches(value, done, outcome, beh) ==
    IF IllegalCallback(done)
    THEN CallResult("TypeError", FALSE, NoCST, NotBuilt, << >>)
    ELSE IF outcome.threw
    THEN CallResult(NoError, TRUE, NoCST, NotBuilt,
                    << InvokeDone(NewRun(NoNode, TRUE), "ParseError", NoNode) >>)
    ELSE LET tree == fromCST(outcome.cst) IN
         IF tree.err # NoError
         THEN CallResult(tree.err, TRUE, outcome.cst, tree, << >>)
         ELSE LET res == RetextRun(tree.node, done, beh) IN
              CallResult(res.thrown, TRUE, outcome.cst, tree, res.run)

\* done(null, fromCST(self.TextOM, cst)) in place of self.run(..)
RetextParse_skipsRun(value, done, outcome, beh) ==
    IF IllegalCallback(done)
    THEN CallResult("TypeError", FALSE, NoCST, NotBuilt, << >>)
    ELSE IF outcome.threw
    THEN CallResult("ParseError", TRUE, NoCST, NotBuilt, << >>)
    ELSE LET tree == fromCST(outcome.cst) IN
         IF tree.err # NoError
         THEN CallResult(tree.err, TRUE, outcome.cst, tree, << >>)
         ELSE CallResult(NoError, TRUE, outcome.cst, tree,
                         << InvokeDone(NewRun(tree.node, TRUE), NoError, tree.node) >>)
\* try { node = fromCST(self.TextOM, cst) } catch (e) { done(e); return self }
RetextParse_reportsBuildError(value, done, outcome, beh) ==
    IF IllegalCallback(done)
    THEN CallResult("TypeError", FALSE, NoCST, NotBuilt, << >>)
    ELSE IF outcome.threw
    THEN CallResult("ParseError", TRUE, NoCST, NotBuilt, << >>)
    ELSE LET tree == fromCST(outcome.cst) IN
         IF tree.err # NoError
         THEN CallResult(NoError, TRUE, outcome.cst, tree,
                         << InvokeDone(NewRun(NoNode, TRUE), tree.err, NoNode) >>)
         ELSE LET res == RetextRun(tree.node, done, beh) IN
              CallResult(res.thrown, TRUE, outcome.cst, tree, res.run)

\* Retext.prototype.parse = function (value, done)
RetextParse(value, done, outcome, beh) ==
    IF IllegalCallback(done)
    THEN CallResult("TypeError", FALSE, NoCST, NotBuilt, << >>)
    ELSE IF outcome.threw
    THEN CallResult("ParseError", TRUE, NoCST, NotBuilt, << >>)
    ELSE LET tree == fromCST(outcome.cst) IN
         IF tree.err # NoError
         THEN CallResult(tree.err, TRUE, outcome.cst, tree, << >>)
         ELSE LET res == RetextRun(tree.node, done, beh) IN
              CallResult(res.thrown, TRUE, outcome.cst, tree, res.run)

-----------------------------------------------------------------------------
(* The tasks.                                                              *)

\* After these the runner starts no further plugin in the same task.
Stops(b) == b \in {"suspend", "throw", "nextError"}

\* What the plugins do that are invoked in a task which starts the
\* plugins after position from: one behaviour per position of the registry,
\* "none" for the positions whose plugin the task does not reach.
RECURSIVE BehavioursFrom(_, _, _)
BehavioursFrom(k, from, reached) ==
    IF k > Len(fns) THEN { << >> }
    ELSE IF k <= from \/ ~reached
         THEN { << "none" >> \o s : s \in BehavioursFrom(k + 1, from, reached) }
         ELSE UNION { { << b >> \o s : s \in BehavioursFrom(k + 1, from, ~Stops(b)) }
                      : b \in BehavioursOf(fns[k]) }

Range(seq) == { seq[j] : j \in 1..Len(seq) }

\* Whether the hooks throw matters only when a plugin with a hook is newly
\* attached; otherwise one choice is enough.
ModesFor(plugin) ==
    IF HasAttach(plugin) /\ plugin \notin Range(fns) THEN HookModes
    ELSE { [p \in {"P1", "P2"} |-> "no"] }

\* The behaviours tried in a call of run or parse: all of them when the
\* callback is a function; with no callback, one is enough (every plugin
\* throws if it is invoked at all).
BehavioursFor(done) ==
    IF done \in Callbacks THEN BehavioursFrom(1, 0, TRUE)
    ELSE { [k \in 1..Len(fns) |-> "throw"] }

\* The number of plugins started in a pipeline.
Started(run) == Cardinality({j \in 1..Len(run.log) : run.log[j].e = "start"})

\* The record of a task.
Task(name, arg, done, thrown, parser, builds, hooks, pipelines, started, before) ==
    [name |-> name, arg |-> arg, done |-> done, thrown |-> thrown, parser |-> parser,
     builds |-> builds, hooks |-> hooks, pipelines |-> pipelines, started |-> started,
     before |-> before]

RunNodes == { NewNode("WordNode") }
Texts == { "Cat." }

Init ==
    /\ fns = << >>
    /\ arity \in {[P1 |-> 2, P2 |-> 3, P3 |-> a] : a \in {2, 3}}
    /\ attached = [p \in Plugins |-> 0]
    /\ runs = << >>
    /\ op = Task("new", "undefined", "undefined", NoError, "none", 0, << >>, 0, 0, << >>)
    /\ cst = NoCST
    /\ built = NotBuilt
    /\ late = 0

\* retext.use(plugin)
Use(plugin, mode) ==
    /\ LET st == UseCall([fns |-> fns, attached |-> attached, hooks |-> << >>,
                          err |-> NoError], plugin, mode, 1)
       IN /\ fns' = st.fns
          /\ attached' = st.attached
          /\ op' = Task("use", plugin, "undefined", st.err, "none", 0, st.hooks, 0, 0, fns)
    /\ cst' = NoCST /\ built' = NotBuilt
    /\ UNCHANGED <<arity, runs, late>>

\* retext.run(node, done)
Run(node, done, beh) ==
    /\ Len(runs) < MaxRuns
    /\ LET res == RetextRun(node, done, beh)
       IN /\ runs' = runs \o res.run
          /\ op' = Task("run", "node", done, res.thrown,
                        IF res.parsed THEN "returned" ELSE "none", 0, << >>,
                        Len(res.run), IF res.run = << >> THEN 0 ELSE Started(res.run[1]),
                        fns)
    /\ cst' = NoCST /\ built' = NotBuilt
    /\ UNCHANGED <<fns, arity, attached, late>>

\* retext.parse(value, done)
Parse(value, done, outcome, beh) ==
    /\ Len(runs) < MaxRuns
    /\ LET res == RetextParse(value, done, outcome, beh)
       IN /\ runs' = runs \o res.run
          /\ cst' = res.cst
          /\ built' = res.built
          /\ op' = Task("parse", value, done, res.thrown,
                        IF ~res.parsed THEN "none"
                        ELSE IF outcome.threw THEN "threw" ELSE "returned",
                        IF res.built # NotBuilt THEN 1 ELSE 0, << >>,
                        Len(res.run), IF res.run = << >> THEN 0 ELSE Started(res.run[1]),
                        fns)
    /\ UNCHANGED <<fns, arity, attached, late>>

\* A later task: the asynchronous plugin started at position k of pipeline
\* r invokes its continuation: next(), next(err) or next(null, node).
ContinuationArgs == {"ok", "error", "node"}
Continue(r, k, arg, beh) ==
    /\ r \in 1..Len(runs)
    /\ k \in 1..runs[r].i
    /\ ArityOf(fns[k]) >= 3
    /\ late < MaxLate
    /\ LET p == fns[k]
           before == runs[r]
           after == Complete(before, k,
                             IF arg = "error" THEN ErrorOf(p) ELSE NoError,
                             IF arg = "node" THEN Replacement(p) ELSE NoNode, beh)
       IN /\ runs' = [runs EXCEPT ![r] = after]
          /\ op' = Task("continue", p, "undefined", NoError, "none", 0, << >>, 0,
                        Started(after) - Started(before), fns)
    /\ late' = late + 1
    /\ cst' = NoCST /\ built' = NotBuilt
    /\ UNCHANGED <<fns, arity, attached>>

Next ==
    \/ \E plugin \in Plugins \cup NonFunctions : \E mode \in ModesFor(plugin) :
          Use(plugin, mode)
    \/ \E node \in RunNodes, done \in Callbacks \cup NonFunctions :
          \E beh \in BehavioursFor(done) : Run(node, done, beh)
    \/ \E value \in Texts, done \in Callbacks \cup NonFunctions, outcome \in ParserOutcomes :
          \E beh \in BehavioursFor(done) : Parse(value, done, outcome, beh)
    \/ \E r \in 1..Len(runs) : \E k \in 1..runs[r].i, arg \in ContinuationArgs :
          \E beh \in BehavioursFrom(1, runs[r].i, TRUE) : Continue(r, k, arg, beh)

Spec == Init /\ [][Next]_vars

-----------------------------------------------------------------------------
(* The tree builder on its own: fromCST applied to each CST of GenCSTs.    *)

InitCST ==
    /\ fns = << >>
    /\ arity = [p \in Plugins |-> 2]
    /\ attached = [p \in Plugins |-> 0]
    /\ runs = << >>
    /\ op = Task("new", "undefined", "undefined", NoError, "none", 0, << >>, 0, 0, << >>)
    /\ cst \in GenCSTs
    /\ built = NotBuilt
    /\ late = 0

\* fromCST(TextOM, cst)
Build ==
    /\ built = NotBuilt
    /\ built' = fromCST(cst)
    /\ op' = [op EXCEPT !.name = "fromCST", !.builds = 1]
    /\ UNCHANGED <<fns, arity, attached, runs, cst, late>>

SpecCST == InitCST /\ [][Build]_vars

-----------------------------------------------------------------------------
(* Overlapping runs: the plugins are attached first, then run is called    *)
(* again while every pipeline started before stands at an asynchronous     *)
(* plugin, and the suspended plugins invoke their continuations in any     *)
(* order.                                                                  *)

\* The node given to the r-th run call: each call has a node of its own.
PairNode(r) ==
    CASE r = 1 -> NewNode("WordNode")
      [] r = 2 -> NewNode("TextNode")
      [] OTHER -> NewNode("SymbolNode")

\* Pipeline r has been started and has not invoked its callback.
InFlight(r) == runs[r].cbArgs = << >>

\* retext.use(plugin), before any run.
PairUse(plugin) ==
    /\ runs = << >>
    /\ Use(plugin, [p \in {"P1", "P2"} |-> "no"])

\* retext.run(node, done), while every earlier pipeline is in flight.
PairRun(beh) ==
    /\ Len(runs) < MaxPair
    /\ \A r \in 1..Len(runs) : InFlight(r)
    /\ LET res == RetextRun(PairNode(Len(runs) + 1), "done", beh)
       IN /\ runs' = runs \o res.run
          /\ op' = Task("run", "node", "done", res.thrown, "none", 0, << >>,
                        Len(res.run), Started(res.run[1]), fns)
    /\ cst' = NoCST /\ built' = NotBuilt
    /\ UNCHANGED <<fns, arity, attached, late>>

\* A later task: the plugin at position k of pipeline r invokes its
\* continuation.
PairContinue(r, k, arg, beh) ==
    /\ r \in 1..Len(runs)
    /\ k \in 1..runs[r].i
    /\ ArityOf(fns[k]) >= 3
    /\ late < MaxPairLate
    /\ LET p == fns[k]
           before == runs[r]
           after == Complete(before, k,
                             IF arg = "error" THEN ErrorOf(p) ELSE NoError,
                             IF arg = "node" THEN Replacement(p) ELSE NoNode, beh)
       IN /\ runs' = [runs EXCEPT ![r] = after]
          /\ op' = Task("continue", p, "undefined", NoError, "none", 0, << >>, 0,
                        Started(after) - Started(before), fns)
    /\ late' = late + 1
    /\ cst' = NoCST /\ built' = NotBuilt
    /\ UNCHANGED <<fns, arity, attached>>

NextPair ==
    \/ \E plugin \in Plugins : PairUse(plugin)
    \/ \E beh \in BehavioursFrom(1, 0, TRUE) : PairRun(beh)
    \/ \E r \in 1..Len(runs) : \E k \in 1..runs[r].i, arg \in ContinuationArgs :
          \E beh \in BehavioursFrom(1, runs[r].i, TRUE) : PairContinue(r, k, arg, beh)

SpecPair == Init /\ [][NextPair]_vars

-----------------------------------------------------------------------------
(* What the claims talk about.                                             *)

RunIds == 1..Len(runs)

\* The positions of the log of pipeline r that hold event e of plugin k.
At(r, e, k) == { j \in 1..Len(runs[r].log) : runs[r].log[j].e = e /\ runs[r].log[j].k = k }

\* The positions of the log of pipeline r that hold an event e.
AtAny(r, e) == { j \in 1..Len(runs[r].log) : runs[r].log[j].e = e }

\* Pipeline r took a failure as the completion of plugin k.
Failed(r, k) == At(r, "fail", k) # {}

\* Plugin k of pipeline r raised an error at some time, taken or not.
SignalledFailure(r, k) == Failed(r, k) \/ <<k, "fail">> \in runs[r].ignored

\* Pipeline r reported success.
Succeeded(r) == runs[r].cbArgs # << >> /\ runs[r].cbArgs[1].err = NoError

\* The last task was a call by the caller with this name.
LastCall(name) == op.name = name

-----------------------------------------------------------------------------
C2_Sequential ==
    \A r \in RunIds :
        LET log == runs[r].log IN
        /\ \A j \in AtAny(r, "start") :
              /\ log[j].k = 1 + Cardinality({h \in AtAny(r, "start") : h < j})
              /\ log[j].p = fns[log[j].k]
              /\ log[j].k > 1 => \E h \in At(r, "end", log[j].k - 1) : h < j
              /\ \A h \in AtAny(r, "callback") : j < h
        /\ \A j \in AtAny(r, "callback") :
              \A h \in AtAny(r, "start") :
                  \E g \in At(r, "end", log[h].k) \cup At(r, "fail", log[h].k) :
                      h < g /\ g < j
        /\ Succeeded(r) =>
              LET n == runs[r].i IN
              /\ Len(log) = 2 * n + 1
              /\ log[2 * n + 1].e = "callback" /\ log[2 * n + 1].k = n
              /\ \A k \in 1..n : /\ log[2 * k - 1].e = "start" /\ log[2 * k - 1].k = k
                                 /\ log[2 * k].e = "end" /\ log[2 * k].k = k
        /\ (Succeeded(r) /\ runs[r].i = 3 /\ SubSeq(fns, 1, 3) = << "P1", "P2", "P3" >>) =>
              [j \in 1..Len(log) |-> << log[j].e, log[j].p >>] =
                  << << "start", "P1" >>, << "end", "P1" >>, << "start", "P2" >>,
                     << "end", "P2" >>, << "start", "P3" >>, << "end", "P3" >>,
                     << "callback", "done" >> >>

\* P1, P2, P3 attached in that order; P2 had suspended the run, and the
\* task in which P2 invoked its continuation started P3 and ended the run.
C2_Witness ==
    /\ fns = << "P1", "P2", "P3" >>
    /\ LastCall("continue") /\ op.arg = "P2" /\ op.started = 1
    /\ \E r \in RunIds : Succeeded(r) /\ runs[r].i = 3

C4_CompletesWithNode ==
    \A r \in RunIds :
        LET run == runs[r] IN
        /\ (\A k \in 1..Len(fns) : At(r, "end", k) # {}) =>
              /\ run.cbArgs = << [err |-> NoError, node |-> run.node] >>
              /\ run.log[Len(run.log)].e = "callback"
              /\ \A k \in 1..Len(fns) : Cardinality(At(r, "start", k)) = 1
        /\ Succeeded(r) =>
              /\ run.cbArgs = << [err |-> NoError, node |-> run.node] >>
              /\ \A j \in AtAny(r, "callback") :
                    \A k \in 1..run.log[j].k :
                        /\ Cardinality(At(r, "start", k)) = 1
                        /\ \E g \in At(r, "end", k) : g < j
        /\ (run.i = 0 /\ run.hasDone) =>
              run.cbArgs = << [err |-> NoError, node |-> run.input] >>

\* All of P1, P2, P3 completed without error, the last of them in a later
\* task, and the callback was invoked.
C4_Witness ==
    /\ Len(fns) = 3
    /\ LastCall("continue")
    /\ \E r \in RunIds : /\ \A k \in 1..3 : At(r, "end", k) # {}
                         /\ Succeeded(r)

(* C5: the registry never holds a plugin twice; a use of a plugin that is  *)
(* attached already changes nothing (registry, hooks) and throws nothing;  *)
(* a run starts no plugin twice, and a run that succeeds has started every *)
(* plugin of the registry exactly once.                                    *)
C5_IdempotentAttach ==
    /\ \A p \in Range(fns) : Cardinality({j \in 1..Len(fns) : fns[j] = p}) = 1
    /\ (LastCall("use") /\ op.arg \in Range(op.before)) =>
          /\ fns = op.before
          /\ op.hooks = << >>
          /\ op.thrown = NoError
    /\ \A r \in RunIds :
          /\ \A p \in Range(fns) :
                Cardinality({j \in AtAny(r, "start") : runs[r].log[j].p = p}) <= 1
          /\ Succeeded(r) =>
                \A j \in AtAny(r, "callback") : \A k \in 1..runs[r].log[j].k :
                    Cardinality({h \in AtAny(r, "start") : runs[r].log[h].p = fns[k]}) = 1

\* A plugin was used again while attached, and a run that succeeded
\* executed it.
C5_Witness ==
    /\ LastCall("use") /\ op.arg \in Range(op.before)
    /\ \E r \in RunIds :
          /\ Succeeded(r)
          /\ \E j \in AtAny(r, "start") : runs[r].log[j].p = op.arg

(* C6: the attach hook of a plugin has been invoked exactly once if the    *)
(* plugin is attached and has a hook, and never otherwise, whatever use,   *)
(* parse and run calls were made; the hooks invoked in a use call are      *)
(* those of the plugins that call attached, in the order of attachment;    *)
(* any other task invokes no hook.                                         *)
C6_AttachOnce ==
    /\ \A p \in Plugins :
          attached[p] = IF p \in Range(fns) /\ HasAttach(p) THEN 1 ELSE 0
    /\ LastCall("use") =>
          /\ Len(op.before) <= Len(fns)
          /\ op.hooks = SelectSeq(SubSeq(fns, Len(op.before) + 1, Len(fns)), HasAttach)
    /\ ~LastCall("use") => op.hooks = << >>

\* P1 was used again after a pipeline had run: its hook was invoked once.
C6_Witness ==
    /\ LastCall("use") /\ op.arg = "P1" /\ "P1" \in Range(op.before)
    /\ attached["P1"] = 1 /\ attached["P2"] = 1
    /\ runs # << >>

(* C7: use with a value that is not a function throws a TypeError and      *)
(* leaves the registry as it was; no attach hook is invoked.               *)
C7_IllegalPluginRejected ==
    (LastCall("use") /\ TypeOf(op.arg) # "function") =>
        /\ op.thrown = "TypeError"
        /\ fns = op.before
        /\ op.hooks = << >>
        /\ \A p \in Plugins : attached[p] <= 1

\* use("str") on a registry that holds plugins.
C7_Witness ==
    LastCall("use") /\ op.arg = "str" /\ Len(fns) >= 2 /\ op.thrown = "TypeError"

(* C8: parse and run with a callback that is missing or not a function     *)
(* throw a TypeError before anything else: the parser is not invoked, no   *)
(* tree is built, no pipeline is started and no plugin is executed.        *)
C8_IllegalCallbackRejected ==
    ((LastCall("parse") \/ LastCall("run")) /\ TypeOf(op.done) # "function") =>
        /\ op.thrown = "TypeError"
        /\ op.parser = "none"
        /\ op.builds = 0 /\ cst = NoCST /\ built = NotBuilt
        /\ op.pipelines = 0
        /\ op.started = 0

\* parse(text) without a callback, on a registry that holds plugins.
C8_Witness ==
    LastCall("parse") /\ op.done = "undefined" /\ fns # << >> /\ op.thrown = "TypeError"

(* C9: if the parser throws in parse(text, callback), the exception leaves *)
(* parse: no pipeline is started, so the callback is not invoked and no    *)
(* plugin is executed, and no tree is built.                               *)
C9_ParserFailurePropagates ==
    (LastCall("parse") /\ op.parser = "threw") =>
        /\ op.thrown = "ParseError"
        /\ op.pipelines = 0
        /\ op.started = 0
        /\ op.builds = 0 /\ built = NotBuilt
        /\ \A r \in RunIds : runs[r].input # NoNode

\* The parser threw in a parse call with a callback, on a registry that
\* holds plugins.
C9_Witness ==
    /\ LastCall("parse") /\ op.parser = "threw" /\ op.done = "done"
    /\ fns # << >> /\ runs = << >>

-----------------------------------------------------------------------------
(* C10: the tree builder.                                                  *)

\* Every node of the CST carries children or a value, not both, and its
\* children are nodes.
RECURSIVE WellFormed(_)
WellFormed(c) ==
    /\ Truthy(c)
    /\ c.has \in {"children", "value"}
    /\ c.has = "children" => \A j \in 1..Len(c.children) : WellFormed(c.children[j])

\* Every type of the CST has a constructor in the object model.
RECURSIVE TypesKnown(_)
TypesKnown(c) ==
    /\ c.type \in TextOMTypes
    /\ \A j \in 1..Len(c.children) : TypesKnown(c.children[j])

\* The tree has the shape of the CST: per node the same type, one append
\* per child, in order, each of a tree of the shape of that child, and for
\* a leaf one fromString, of the value.
RECURSIVE SameShape(_, _)
SameShape(c, node) ==
    /\ node.type = c.type
    /\ IF c.has = "children"
       THEN /\ node.text = << >>
            /\ Len(node.children) = Len(c.children)
            /\ \A j \in 1..Len(c.children) : SameShape(c.children[j], node.children[j])
       ELSE /\ node.children = << >>
            /\ node.text = << c.value >>

\* The contents of the leaves of a tree, in order.
RECURSIVE LeafContents(_)
RECURSIVE LeafContentsOf(_, _)
LeafContentsOf(children, j) ==
    IF j > Len(children) THEN << >>
    ELSE LeafContents(children[j]) \o LeafContentsOf(children, j + 1)
LeafContents(node) ==
    IF node.children = << >> THEN node.text ELSE LeafContentsOf(node.children, 1)

(* C10: for a well-formed CST whose types have constructors, fromCST       *)
(* returns a tree of the same shape; whenever fromCST returns for a        *)
(* well-formed CST, the tree has the shape of the CST; the leaves of the   *)
(* tree of the 'Cat.' CST hold "Cat" and ".", in that order.               *)
C10_SameShape ==
    built # NotBuilt =>
        /\ (WellFormed(cst) /\ TypesKnown(cst)) => built.err = NoError
        /\ (WellFormed(cst) /\ built.err = NoError) => SameShape(cst, built.node)
        /\ cst = CatCST => /\ built.err = NoError
                           /\ LeafContents(built.node) = << "Cat", "." >>

\* A tree was built from a well-formed CST with a node of two children.
C10_Witness ==
    /\ built # NotBuilt /\ built.err = NoError
    /\ WellFormed(cst)
    /\ Len(cst.children) = 2
    /\ cst.children[1] # cst.children[2]

-----------------------------------------------------------------------------
(* C11: building a CST node whose type has no constructor in the object    *)
(* model fails with the distinct error UnknownNodeTypeError.               *)
C11_UnknownNodeTypeError ==
    (built # NotBuilt /\ cst.type \notin TextOMTypes) =>
        built.err = "UnknownNodeTypeError"

-----------------------------------------------------------------------------
\* No attach hook throws.
NoThrow == [p \in {"P1", "P2"} |-> "no"]

\* retext.use(plugin) in the current state, as a call of its own.
UseNow(plugin, mode) ==
    UseCall([fns |-> fns, attached |-> attached, hooks |-> << >>, err |-> NoError],
            plugin, mode, 1)

\* The sequence holds no value twice.
NoDuplicates(list) ==
    \A j, h \in 1..Len(list) : list[j] = list[h] => j = h

\* before is a prefix of after.
IsPrefix(before, after) ==
    /\ Len(before) <= Len(after)
    /\ SubSeq(after, 1, Len(before)) = before

(* C12: reentrant attachment terminates and keeps the registry well        *)
(* formed.  P1's hook uses P2, and P2's hook uses P1 and P2 itself.  In    *)
(* every reachable state, a use of any plugin whose hooks do not throw     *)
(* returns (the call stack does not overflow), after it every plugin is in *)
(* the registry once and every hook of an attached plugin has been invoked *)
(* once; and no use call, whatever its hooks do, overflows the stack.      *)
C12_ReentrantAttach ==
    /\ \A p \in Plugins :
          LET st == UseNow(p, NoThrow) IN
          /\ st.err = NoError
          /\ p \in Range(st.fns)
          /\ NoDuplicates(st.fns)
          /\ \A q \in Plugins :
                st.attached[q] = IF q \in Range(st.fns) /\ HasAttach(q) THEN 1 ELSE 0
          /\ NoDuplicates(st.hooks)
    /\ LastCall("use") =>
          /\ op.thrown # "RangeError"
          /\ NoDuplicates(fns)
          /\ NoDuplicates(op.hooks)

\* use(P2) on the empty registry returned: P2's hook used P1, whose hook
\* used P2, and then P2 itself; each was attached once, each hook invoked
\* once.
C12_Witness ==
    /\ LastCall("use") /\ op.arg = "P2" /\ op.before = << >>
    /\ op.thrown = NoError
    /\ fns = << "P2", "P1" >>
    /\ op.hooks = << "P2", "P1" >>
    /\ attached["P1"] = 1 /\ attached["P2"] = 1

-----------------------------------------------------------------------------
\* The node a pipeline holds at position j of its log: the node supplied by
\* the last completion before j that supplied one, or else the node the
\* pipeline was given.
RECURSIVE Threaded(_, _)
Threaded(run, j) ==
    IF j <= 1 THEN run.input
    ELSE IF run.log[j - 1].e = "end" /\ run.log[j - 1].node # NoNode
         THEN run.log[j - 1].node
         ELSE Threaded(run, j - 1)

\* Some plugin of pipeline r supplied a replacement node that was taken.
Replaced(r) ==
    \E j \in AtAny(r, "end") : runs[r].log[j].node # NoNode

(* C13: a replacement node a plugin supplies to its continuation is the    *)
(* node every later plugin of the run and the callback receive; without a  *)
(* replacement every plugin and the callback receive the node given to     *)
(* run (by the caller, or by parse: the tree it built).                    *)
C13_ReplacementThreads ==
    /\ \A r \in RunIds :
          LET run == runs[r] IN
          /\ \A j \in AtAny(r, "start") : run.log[j].node = Threaded(run, j)
          /\ Succeeded(r) => run.cbArgs[1].node = Threaded(run, Len(run.log))
          /\ ~Replaced(r) =>
                /\ \A j \in AtAny(r, "start") : run.log[j].node = run.input
                /\ Succeeded(r) => run.cbArgs[1].node = run.input
    /\ (LastCall("run") /\ op.pipelines = 1) => runs[Len(runs)].input \in RunNodes
    /\ (LastCall("parse") /\ op.pipelines = 1) => runs[Len(runs)].input = built.node

\* P2 of P1, P2, P3 supplied a replacement in a later task: P3 and the
\* callback received it.
C13_Witness ==
    /\ fns = << "P1", "P2", "P3" >>
    /\ LastCall("continue") /\ op.arg = "P2"
    /\ \E r \in RunIds :
          /\ \E j \in At(r, "end", 2) : runs[r].log[j].node = Replacement("P2")
          /\ \E j \in At(r, "start", 3) : runs[r].log[j].node = Replacement("P2")
          /\ runs[r].cbArgs = << [err |-> NoError, node |-> Replacement("P2")] >>

(* C14: the registry holds no function twice and is only extended at its   *)
(* end: the registry before a task is a prefix of the registry after it,   *)
(* only use changes it, and this holds for any use call that could be made *)
(* next; a run starts the plugins in the order of the registry, which is   *)
(* the order of first attachment.                                          *)
C14_AppendOnly ==
    /\ NoDuplicates(fns)
    /\ IsPrefix(op.before, fns)
    /\ ~LastCall("use") => fns = op.before
    /\ \A p \in Plugins \cup NonFunctions : \A m \in HookModes :
          LET st == UseNow(p, m) IN
          /\ IsPrefix(fns, st.fns)
          /\ NoDuplicates(st.fns)
    /\ \A r \in RunIds :
          LET starts == SelectSeq(runs[r].log, LAMBDA ev : ev.e = "start") IN
          [j \in 1..Len(starts) |-> starts[j].p] = SubSeq(fns, 1, Len(starts))

\* P1 was used on the registry P3, after a run had executed P3: the
\* registry is P3, P1, P2.
C14_Witness ==
    /\ LastCall("use") /\ op.arg = "P1"
    /\ op.before = << "P3" >>
    /\ fns = << "P3", "P1", "P2" >>
    /\ \E r \in RunIds : At(r, "start", 1) # {}

\* The last plugin started in pipeline r has not completed: it is
\* asynchronous, it returned without throwing, and its continuation has not
\* been invoked.
Suspended(r) ==
    /\ runs[r].i >= 1
    /\ ~runs[r].consumed[runs[r].i]

(* C15: while an asynchronous plugin has not invoked its continuation (and *)
(* did not throw), its run stands still whatever else happens: the         *)
(* callback has not been invoked, the plugin's start is the last event of  *)
(* the run, and every step in which the plugin does not complete leaves    *)
(* the run as it is; the plugin completes only in a task in which its      *)
(* continuation is invoked.  So if it never invokes it, the callback is    *)
(* never invoked and no later plugin is ever started.                      *)
C15_StallsForEver ==
    [][ \A r \in RunIds :
          Suspended(r) =>
              LET k == runs[r].i IN
              /\ runs[r].cbArgs = << >>
              /\ runs[r].log[Len(runs[r].log)].e = "start"
              /\ runs[r].log[Len(runs[r].log)].k = k
              /\ ~runs'[r].consumed[k] =>
                    /\ runs'[r].log = runs[r].log
                    /\ runs'[r].i = k
                    /\ runs'[r].cbArgs = << >>
              /\ runs'[r].consumed[k] =>
                    /\ op'.name = "continue"
                    /\ op'.arg = fns[k]
      ]_vars

\* A run stands at P2, the second of two plugins, and a third plugin was
\* attached in the meantime: it has not been started.
C15_Witness ==
    /\ LastCall("use") /\ op.thrown = NoError
    /\ Len(op.before) = 2 /\ Len(fns) = 3
    /\ \E r \in RunIds : Suspended(r) /\ runs[r].i = 2 /\ runs[r].cbArgs = << >>

-----------------------------------------------------------------------------
(* C16: parse(text, callback) with a callable callback invokes the parser, *)
(* builds one tree from the CST the parser returned, and then does what    *)
(* run(thatTree, callback) does: for every CST the parser may return whose *)
(* tree can be built and whatever the plugins do, parse starts the same    *)
(* pipeline (the same plugins started in the same order on that tree, the  *)
(* same callback arguments) and throws the same; and the pipeline a parse  *)
(* call has started is one that run starts on the tree built.              *)
C16_ParseDelegatesToRun ==
    /\ \A value \in Texts, done \in Callbacks : \A outcome \in ParserOutcomes :
          LET tree == fromCST(outcome.cst) IN
          (~outcome.threw /\ tree.err = NoError) =>
              \A beh \in BehavioursFor(done) :
                  LET viaParse == RetextParse(value, done, outcome, beh)
                      viaRun == RetextRun(tree.node, done, beh)
                  IN /\ viaParse.parsed
                     /\ viaParse.cst = outcome.cst
                     /\ viaParse.built = tree
                     /\ viaParse.thrown = viaRun.thrown
                     /\ viaParse.run = viaRun.run
    /\ (LastCall("parse") /\ op.pipelines = 1) =>
          /\ op.parser = "returned"
          /\ op.builds = 1
          /\ built = fromCST(cst) /\ built.err = NoError
          /\ runs[Len(runs)].input = built.node
          /\ \E beh \in BehavioursFor(op.done) :
                RetextRun(built.node, op.done, beh).run = << runs[Len(runs)] >>

\* parse('Cat.', done) with three plugins attached: all three ran on the
\* tree built and the callback received it.
C16_Witness ==
    /\ LastCall("parse") /\ op.pipelines = 1 /\ op.started = 3
    /\ cst = CatCST
    /\ LeafContents(built.node) = << "Cat", "." >>
    /\ runs[Len(runs)].cbArgs = << [err |-> NoError, node |-> built.node] >>

\* The plugin the attach hook of a uses first.
Dependency(a) == AttachUses(a)[1]

AllComplete ==
    [k \in 1..Len(fns) |-> IF ArityOf(fns[k]) >= 3 THEN "next" ELSE "return"]

(* C18: if an attach hook throws, the error leaves use and the registry is *)
(* not restored: a use of a new plugin whose hook throws ends with the     *)
(* error and with the plugin registered; after a use call that threw so,   *)
(* the plugin used and the plugin whose hook threw are in the registry, a  *)
(* run or parse made now executes them, and another use of them changes    *)
(* nothing, invokes no hook and throws nothing.                            *)
C18_AttachFailureKeepsPlugin ==
    /\ \A p \in {"P1", "P2"} :
          p \notin Range(fns) =>
              \A m \in HookModes :
                  m[p] # "no" =>
                      LET st == UseNow(p, m) IN
                      /\ st.err = "AttachError"
                      /\ p \in Range(st.fns)
                      /\ st.attached[p] = 1
    /\ (LastCall("use") /\ op.thrown = "AttachError") =>
          /\ op.hooks # << >>
          /\ Len(fns) > Len(op.before)
          /\ \A p \in {op.arg, op.hooks[Len(op.hooks)]} :
                /\ p \in Range(fns)
                /\ attached[p] = 1
                /\ \A m \in HookModes :
                      LET st == UseNow(p, m) IN
                      /\ st.fns = fns
                      /\ st.attached = attached
                      /\ st.hooks = << >>
                      /\ st.err = NoError
                /\ \A node \in RunNodes :
                      \E ev \in Range(RetextRun(node, "done", AllComplete).run[1].log) :
                          ev.e = "start" /\ ev.p = p
                /\ \A value \in Texts :
                      \E ev \in Range(RetextParse(value, "done",
                                          [threw |-> FALSE, cst |-> CatCST],
                                          AllComplete).run[1].log) :
                          ev.e = "start" /\ ev.p = p

\* P1's hook threw before it used P2, so the registry is P1 alone; a run
\* executed P1, and P1 was used again: nothing happened.
C18_Witness ==
    /\ fns = << "P1" >> /\ attached["P1"] = 1
    /\ LastCall("use") /\ op.arg = "P1"
    /\ op.thrown = NoError /\ op.hooks = << >> /\ op.before = fns
    /\ \E r \in RunIds : At(r, "start", 1) # {}

(* C19: if fromCST throws in parse(text, callback), the exception leaves   *)
(* parse as a parser failure does: no pipeline is started, so the callback *)
(* is not invoked and no plugin is executed.                               *)
C19_BuildFailurePropagates ==
    (LastCall("parse") /\ op.builds = 1 /\ built.err # NoError) =>
        /\ op.parser = "returned"
        /\ built = fromCST(cst)
        /\ op.thrown = built.err
        /\ op.thrown # NoError
        /\ op.pipelines = 0
        /\ op.started = 0

\* The parser returned a CST with a type that has no constructor, in a
\* parse call with a callback on a registry that holds plugins.
C19_Witness ==
    /\ LastCall("parse") /\ op.done = "done" /\ op.parser = "returned"
    /\ ~TypesKnown(cst)
    /\ built.err = "TypeError" /\ op.thrown = "TypeError"
    /\ fns # << >>

-----------------------------------------------------------------------------
\* Pipeline r on its own: it was given the node of the r-th run call; it
\* has started the first plugins of the registry, in order, each after the
\* completion of the one before and each on the node of this pipeline; its
\* callback has been invoked at most once, and exactly once when the
\* pipeline is not waiting for a plugin: after the completion of the last
\* plugin with (null, the node of this pipeline), or after the failure of a
\* plugin of this pipeline with that error and no node.
RunOnItsOwn(r) ==
    LET run == runs[r]
        log == run.log
        starts == SelectSeq(log, LAMBDA ev : ev.e = "start")
    IN /\ run.input = PairNode(r)
       /\ [j \in 1..Len(starts) |-> starts[j].p] = SubSeq(fns, 1, Len(starts))
       /\ \A j \in AtAny(r, "start") :
             /\ log[j].node = Threaded(run, j)
             /\ log[j].k > 1 => \E h \in At(r, "end", log[j].k - 1) : h < j
       /\ Len(run.cbArgs) <= 1
       /\ (run.i = 0 \/ run.consumed[run.i]) => Len(run.cbArgs) = 1
       /\ run.cbArgs # << >> =>
             /\ log[Len(log)].e = "callback"
             /\ IF run.cbArgs[1].err = NoError
                THEN /\ run.cbArgs[1].node = Threaded(run, Len(log))
                     /\ run.i = Len(fns)
                     /\ \A k \in 1..Len(fns) :
                           /\ Cardinality(At(r, "start", k)) = 1
                           /\ At(r, "end", k) # {}
                ELSE /\ run.cbArgs[1].node = NoNode
                     /\ run.i >= 1
                     /\ Failed(r, run.i)
                     /\ run.cbArgs[1].err = ErrorOf(fns[run.i])

(* C20: run calls that overlap on one instance progress independently:     *)
(* whatever the order in which their plugins invoke their continuations,   *)
(* each pipeline executes the plugins of the registry in order on its own  *)
(* node, its callback is invoked exactly once, with its own node or the    *)
(* error of its own plugin.                                                *)
C20_IndependentRuns ==
    \A r \in RunIds : RunOnItsOwn(r)

\* Two pipelines over P2 (asynchronous), P1, P3 (asynchronous) were in
\* flight together; both have completed, each with its own node, after four
\* continuations.
C20_Witness ==
    /\ Len(runs) = 2 /\ late = 4
    /\ fns = << "P2", "P1", "P3" >> /\ arity["P3"] = 3
    /\ \A r \in RunIds :
          /\ runs[r].cbArgs = << [err |-> NoError, node |-> PairNode(r)] >>
          /\ runs[r].ignored = {}

====
